---- MODULE Spec2Model ----
(***************************************************************************)
(* Model of soccerai/data/dataset.py: WorldCup2022Dataset.                 *)
(*                                                                         *)
(* A polars DataFrame is a record [columns, rows]: `columns` is the set of *)
(* column names (the schema, which an empty frame keeps) and `rows` is the *)
(* sequence of rows, each a record over the columns whose values the       *)
(* modelled operations read or write.  Columns the operations only carry   *)
(* along (Weight, height_cm, label, ...) are present in the schema only.   *)
(*                                                                         *)
(* A null of a string column is the value NULL.  A derived column that may *)
(* be null holds None (null) or Some(v).                                   *)
(***************************************************************************)
EXTENDS Integers, Sequences, FiniteSets, TLC

VARIABLES
    cfg,            \* self.cfg (DataConfig)
    split,          \* self.split
    force_reload,   \* the constructor's force_reload
    files,          \* the processed directory: file name -> content
    files0,         \* the processed directory when the constructor was called
    raw,            \* the DataFrame read from raw_paths[0]
    pc,             \* position in __init__ / process()
    df,             \* process(): df
    train_df,       \* process(): train_df
    val_df,         \* process(): val_df
    preprocessor,   \* process(): preprocessor
    calls,          \* the fit_transform / transform calls made so far, in order
    train_transformed,
    val_transformed,
    data,           \* what self.load() loaded
    feature_names,  \* self.feature_names
    transform,      \* self.transform
    error           \* the exception that ended the constructor, if any

vars == <<cfg, split, force_reload, files, files0, raw, pc, df, train_df, val_df,
          preprocessor, calls, train_transformed, val_transformed, data,
          feature_names, transform, error>>

-----------------------------------------------------------------------------
(* Bounds of the model. *)

MaxGameId == 4
RatioBits == 2
MaxRows == 3
MaxAge == 40

-----------------------------------------------------------------------------
(* Values. *)

NULL == "NULL"
None == <<>>
Some(v) == <<v>>

Min(S) == CHOOSE m \in S : \A n \in S : m <= n

X_GOAL_RIGHT == "X_GOAL_RIGHT"
X_GOAL_LEFT == "X_GOAL_LEFT"
Y_GOAL == "Y_GOAL"
SHOOTING_STATS == {"SHOOTING_STATS_1", "SHOOTING_STATS_2"}

\* The columns of dataset.parquet that the source names.
RawColumns ==
    {"gameEventType", "index", "startTime", "endTime", "index_right",
     "gameId_right", "visibility", "videoUrl", "homeTeamName", "awayTeamName",
     "Age Info", "Full Name", "Height", "birth_date", "teamName", "playerId",
     "velocity", "direction", "team", "x", "y", "z", "gameEventId",
     "possessionEventId", "possessionEventType", "playerName",
     "playerName_right", "frameTime", "Weight", "height_cm", "age",
     "playerRole", "startPeriod2", "homeTeamStartLeft", "gameId", "label",
     "chain_id", "jerseyNum"} \cup SHOOTING_STATS

-----------------------------------------------------------------------------
(* DataFrame helpers. *)

DropRow(row, cols) == [c \in (DOMAIN row) \ cols |-> row[c]]

\* df.drop(cols)
Drop(d, cols) ==
    [columns |-> d.columns \ cols,
     rows |-> [i \in DOMAIN d.rows |-> DropRow(d.rows[i], cols)]]

RECURSIVE SortedSeq(_)
\* The elements of a set of integers, ascending.
SortedSeq(S) == IF S = {} THEN <<>> ELSE <<Min(S)>> \o SortedSeq(S \ {Min(S)})

\* df.filter(mask): the rows whose entry of the boolean column mask is true,
\* in their order.
Filter(d, mask) ==
    LET idx == SortedSeq({i \in DOMAIN d.rows : mask[i]})
    IN  [columns |-> d.columns, rows |-> [k \in DOMAIN idx |-> d.rows[idx[k]]]]

\* Faulty variant: the window is over gameEventId alone.
SameGroup_GameEventOnly(r, s) == r.gameEventId = s.gameEventId


SameGroup(r, s) ==
    /\ r.gameEventId = s.gameEventId
    /\ r.possessionEventId = s.possessionEventId

\* pl.col(c).filter(mask).first().over("gameEventId", "possessionEventId"),
\* evaluated at row i: the value of column c in the first row of row i's group
\* whose entry of mask is true, null when there is none.
FirstOver(rows, i, mask, c) ==
    LET idx == {j \in DOMAIN rows : SameGroup(rows[j], rows[i]) /\ mask[j]}
    IN  IF idx = {} THEN None ELSE Some(rows[Min(idx)][c])

-----------------------------------------------------------------------------
(* _prepare_dataframe, step by step. *)

cols_to_drop ==
    {"gameEventType", "index", "startTime", "endTime", "index_right",
     "gameId_right", "visibility", "videoUrl", "homeTeamName", "awayTeamName",
     "Age Info", "Full Name", "Height", "birth_date", "teamName", "playerId"}

\* cos / sin of the heading in radians and the product with the speed are
\* floating-point values; they are kept as terms over the integer inputs.
Cos(direction) == <<"cos", direction>>
Sin(direction) == <<"sin", direction>>
Mul(velocity, t) == <<"mul", velocity, t>>

WithVelocityComponents(d) ==
    Drop([columns |-> d.columns \cup {"cos", "sin", "vx", "vy"},
          rows |-> [i \in DOMAIN d.rows |->
                      LET r == d.rows[i] IN
                      r @@ [cos |-> Cos(r.direction),
                            sin |-> Sin(r.direction),
                            vx |-> Mul(r.velocity, Cos(r.direction)),
                            vy |-> Mul(r.velocity, Sin(r.direction))]]],
         {"velocity", "direction"})

\* pl.col("team").is_null()
TeamIsNull(rows) == [i \in DOMAIN rows |-> rows[i].team = NULL]

WithBallFeatures(d) ==
    Drop([columns |-> d.columns \cup {"x_ball", "y_ball", "z_ball", "cos_ball",
                                      "sin_ball", "vx_ball", "vy_ball"},
          rows |-> [i \in DOMAIN d.rows |->
                      d.rows[i] @@
                      [x_ball |-> FirstOver(d.rows, i, TeamIsNull(d.rows), "x"),
                       y_ball |-> FirstOver(d.rows, i, TeamIsNull(d.rows), "y"),
                       z_ball |-> FirstOver(d.rows, i, TeamIsNull(d.rows), "z"),
                       cos_ball |-> FirstOver(d.rows, i, TeamIsNull(d.rows), "cos"),
                       sin_ball |-> FirstOver(d.rows, i, TeamIsNull(d.rows), "sin"),
                       vx_ball |-> FirstOver(d.rows, i, TeamIsNull(d.rows), "vx"),
                       vy_ball |-> FirstOver(d.rows, i, TeamIsNull(d.rows), "vy")]]],
         {"z"})

\* The three filters of lines 147-151; a comparison with null is null and the
\* row is filtered out.
IsPlayerRow(rows) ==
    [i \in DOMAIN rows |->
        /\ rows[i].team # NULL
        /\ rows[i].possessionEventType # NULL
        /\ rows[i].possessionEventType # "SH"
        /\ rows[i].playerName # NULL]

\* "mm:ss" is the pair <<mm, ss>> that str.split(":") yields.
\* The casts to UInt16 and the sum do not overflow for mm < 1092.
ParseFrameTime(t) == t[1] * 60 + t[2]

IsBallCarrier(r) ==
    IF r.playerName_right # NULL /\ r.playerName = r.playerName_right
    THEN 1 ELSE 0

\* Faulty variant: the middle threshold is inclusive.
AgeBand_InclusiveThreshold(age) ==
    IF age < 20 THEN "Under 20"
    ELSE IF age <= 29 THEN "20-28"
    ELSE IF age < 35 THEN "29-35"
    ELSE "35+"


AgeBand(age) ==
    IF age < 20 THEN "Under 20"
    ELSE IF age < 29 THEN "20-28"
    ELSE IF age < 35 THEN "29-35"
    ELSE "35+"

WithParsedColumns(d) ==
    Drop([columns |-> d.columns \cup {"is_ball_carrier"},
          rows |-> [i \in DOMAIN d.rows |->
                      LET r == d.rows[i] IN
                      [r EXCEPT !.frameTime = ParseFrameTime(r.frameTime),
                                !.age = AgeBand(r.age)]
                      @@ [is_ball_carrier |-> IsBallCarrier(r)]]],
         {"playerName", "playerName_right"})

MacroRole(role) ==
    IF role \in {"DM", "CM", "AM", "LM", "RM", "MCB"} THEN "M"
    ELSE IF role \in {"RCB", "LCB", "LB", "RB", "LWB", "RWB"} THEN "D"
    ELSE IF role \in {"RW", "CF", "LW"} THEN "F"
    ELSE role

WithMacroRoles(d) ==
    [columns |-> d.columns,
     rows |-> [i \in DOMAIN d.rows |->
                 [d.rows[i] EXCEPT !.playerRole = MacroRole(d.rows[i].playerRole)]]]

\* pl.col("is_ball_carrier") == 1
IsCarrierRow(rows) == [i \in DOMAIN rows |-> rows[i].is_ball_carrier = 1]

\* Faulty variant: a group without ball carrier is flagged 0 instead of null.
IsPossessionTeam_NullAsZero(rows, i) ==
    LET possession_team_tmp == FirstOver(rows, i, IsCarrierRow(rows), "team")
    IN  IF Some(rows[i].team) = possession_team_tmp THEN Some(1) ELSE Some(0)

\* (team == possession_team_tmp).cast(pl.Int8): null when no row of the group
\* is the ball carrier.
IsPossessionTeam(rows, i) ==
    LET possession_team_tmp == FirstOver(rows, i, IsCarrierRow(rows), "team")
    IN  IF possession_team_tmp = None THEN None
        ELSE IF Some(rows[i].team) = possession_team_tmp THEN Some(1)
        ELSE Some(0)

\* with_columns(...).drop("possession_team_tmp").drop_nulls(["is_possession_team"])
WithPossessionTeam(d) ==
    LET flagged == [i \in DOMAIN d.rows |->
                      d.rows[i] @@
                      [is_possession_team |-> IsPossessionTeam(d.rows, i)]]
        not_null == [i \in DOMAIN flagged |-> flagged[i].is_possession_team # None]
        kept == Filter([columns |-> d.columns \cup {"is_possession_team"},
                        rows |-> flagged], not_null)
    IN  [columns |-> kept.columns,
         rows |-> [i \in DOMAIN kept.rows |->
                     [kept.rows[i] EXCEPT !.is_possession_team = @[1]]]]

\* Faulty variant: the last conjunction misses the half.
GoalRightTerms_AwayIgnoresHalf(is_home_team, homeTeamStartLeft, is_second_half) ==
    <<is_home_team /\ homeTeamStartLeft /\ ~is_second_half,
      is_home_team /\ ~homeTeamStartLeft /\ is_second_half,
      ~is_home_team /\ ~homeTeamStartLeft /\ ~is_second_half,
      ~is_home_team /\ homeTeamStartLeft>>

\* The four conjunctions of lines 219-222.
GoalRightTerms(is_home_team, homeTeamStartLeft, is_second_half) ==
    <<is_home_team /\ homeTeamStartLeft /\ ~is_second_half,
      is_home_team /\ ~homeTeamStartLeft /\ is_second_half,
      ~is_home_team /\ ~homeTeamStartLeft /\ ~is_second_half,
      ~is_home_team /\ homeTeamStartLeft /\ is_second_half>>

IsGoalRight(r) ==
    LET is_home_team == r.team = "home"
        is_second_half == r.frameTime > r.startPeriod2
        t == GoalRightTerms(is_home_team, r.homeTeamStartLeft, is_second_half)
    IN  t[1] \/ t[2] \/ t[3] \/ t[4]

WithGoal(d) ==
    [columns |-> d.columns \cup {"x_goal", "y_goal"},
     rows |-> [i \in DOMAIN d.rows |->
                 d.rows[i] @@
                 [x_goal |-> IF IsGoalRight(d.rows[i]) THEN X_GOAL_RIGHT
                             ELSE X_GOAL_LEFT,
                  y_goal |-> Y_GOAL]]]

PrepareDataframe(d, c) ==
    LET d1 == Drop(d, cols_to_drop)
        d2 == WithVelocityComponents(d1)
        d3 == IF c.include_ball_features THEN WithBallFeatures(d2) ELSE d2
        d4 == Filter(d3, IsPlayerRow(d3.rows))
        d5 == WithParsedColumns(d4)
        d6 == IF c.use_macro_roles THEN WithMacroRoles(d5) ELSE d5
        d7 == WithPossessionTeam(d6)
        d8 == WithGoal(d7)
    IN  Drop(d8, {"team", "homeTeamStartLeft", "startPeriod2"})

-----------------------------------------------------------------------------
(* _split_by_worldcup_phase. *)

Range(s) == {s[i] : i \in DOMAIN s}

\* df.select(["gameId"]).unique().sort("gameId")
UniqueSortedGameIds(d) == SortedSeq({d.rows[i].gameId : i \in DOMAIN d.rows})

\* Series/DataFrame.slice(offset, length) for offset, length >= 0.
Slice(s, offset, length) ==
    SubSeq(s, offset + 1, IF offset + length < Len(s) THEN offset + length ELSE Len(s))

\* val_ratio is the float val_ratio / RatioDen; with a power of two as the
\* denominator 1.0 - val_ratio and its product with n_games are exact in
\* double precision, and int() truncates the non-negative product.
RatioDen == 2 ^ RatioBits

\* Faulty variant: the product is rounded to the nearest integer instead of truncated.
NTrainGames_Rounds(val_ratio, n_games) ==
    (2 * (RatioDen - val_ratio) * n_games + RatioDen) \div (2 * RatioDen)

NTrainGames(val_ratio, n_games) == ((RatioDen - val_ratio) * n_games) \div RatioDen

\* df.join(ids, on="gameId", how="semi")
SemiJoin(d, ids) ==
    Filter(d, [i \in DOMAIN d.rows |-> d.rows[i].gameId \in Range(ids)])

TrainGameIds(d, val_ratio) ==
    LET game_ids == UniqueSortedGameIds(d)
    IN  Slice(game_ids, 0, NTrainGames(val_ratio, Len(game_ids)))

\* Faulty variant: the validation slice starts one identifier too late.
ValGameIds_SkipsOne(d, val_ratio) ==
    LET game_ids == UniqueSortedGameIds(d)
        n_games == Len(game_ids)
    IN  Slice(game_ids, NTrainGames(val_ratio, n_games) + 1, n_games)


ValGameIds(d, val_ratio) ==
    LET game_ids == UniqueSortedGameIds(d)
        n_games == Len(game_ids)
    IN  Slice(game_ids, NTrainGames(val_ratio, n_games), n_games)

SplitByWorldcupPhase(d, val_ratio) ==
    [train_df |-> SemiJoin(d, TrainGameIds(d, val_ratio)),
     val_df |-> SemiJoin(d, ValGameIds(d, val_ratio))]

-----------------------------------------------------------------------------
(* _create_preprocessor.  A column list is modelled as the set of its names. *)

cat_cols == {"possessionEventType", "playerRole", "is_possession_team",
             "is_ball_carrier", "age"}
pos_cols == {"x", "y"}
goal_cols == {"x_goal", "y_goal"}
angle_cols == {"cos", "sin"}
velocity_cols == {"vx", "vy"}
ball_cols == {"x_ball", "y_ball", "z_ball", "height_cm", "cos_ball", "sin_ball",
              "vx_ball", "vy_ball"}

\* Faulty variant: the velocity columns are not excluded from the numeric branch.
ExcludeCols_KeepsVelocity(c) ==
    cat_cols \cup pos_cols \cup goal_cols \cup angle_cols
    \cup {"gameEventId", "possessionEventId", "label", "gameId", "chain_id",
          "jerseyNum"}
    \cup (IF c.include_ball_features THEN ball_cols ELSE {})


ExcludeCols(c) ==
    cat_cols \cup pos_cols \cup goal_cols \cup angle_cols \cup velocity_cols
    \cup {"gameEventId", "possessionEventId", "label", "gameId", "chain_id",
          "jerseyNum"}
    \cup (IF c.include_ball_features THEN ball_cols ELSE {})

NumCols(d, c) == d.columns \ ExcludeCols(c)

NumericSteps(c) ==
    <<IF c.use_regression_imputing THEN "IterativeImputer" ELSE "SimpleImputer",
      "QuantileTransformer">>
    \o (IF c.use_pca_on_roster_cols THEN <<"shooting_stats_pca">> ELSE <<>>)

PlayerLocCols == pos_cols \cup angle_cols \cup velocity_cols \cup goal_cols
GoalLocCols == pos_cols \cup goal_cols
BallPipeCols == pos_cols \cup angle_cols \cup velocity_cols \cup ball_cols

\* The (name, transformer, columns) triples handed to ColumnTransformer.
Transformers(d, c) ==
    <<[name |-> "num", steps |-> NumericSteps(c), columns |-> NumCols(d, c)],
      [name |-> "cat", steps |-> <<"SimpleImputer", "OneHotEncoder">>,
       columns |-> cat_cols],
      [name |-> "player_loc",
       steps |-> <<"KNNImputer", "PlayerLocationTransformer", "speed_norm">>,
       columns |-> PlayerLocCols]>>
    \o (IF c.include_goal_features
        THEN <<[name |-> "goal_loc", steps |-> <<"GoalLocationTransformer">>,
                columns |-> GoalLocCols]>>
        ELSE <<>>)
    \o (IF c.include_ball_features
        THEN <<[name |-> "ball_pipe",
                steps |-> <<"SimpleImputer", "BallLocationTransformer",
                            "diff_speed_norm">>,
                columns |-> BallPipeCols]>>
        ELSE <<>>)

Remainder == "passthrough"

\* cols_to_mask of the optional shooting_stats_mask stage; with PCA the list
\* is computed from the transformed frame (the columns named pca*).
ColsToMask(c) ==
    IF ~c.mask_non_possession_shooting_stats THEN None
    ELSE IF c.use_pca_on_roster_cols THEN Some({"pca*", "is_possession_team_1"})
    ELSE Some(SHOOTING_STATS \cup {"is_possession_team_1"})

CreatePreprocessor(d, c) ==
    [transformers |-> Transformers(d, c),
     remainder |-> Remainder,
     mask |-> ColsToMask(c),
     fitted |-> None,
     n_fits |-> 0]

NoPreprocessor ==
    [transformers |-> <<>>, remainder |-> Remainder, mask |-> None,
     fitted |-> None, n_fits |-> 0]

\* The input columns some branch of the column transformer consumes.
ClaimedCols(p) == UNION {p.transformers[k].columns : k \in DOMAIN p.transformers}

\* What the fitted column transformer returns for X: the columns no branch
\* consumes, as they are (remainder="passthrough"), beside the branches'
\* output, which is a function of the fitted state and of X.
\* The optional shooting_stats_mask stage masks outputs of the numeric and
\* categorical branches only and passes the rest through as well.
Output(p, X) ==
    LET rest == IF p.remainder = "passthrough" THEN X.columns \ ClaimedCols(p)
                ELSE {}
    IN  [passthrough |->
            [columns |-> rest,
             rows |-> [i \in DOMAIN X.rows |->
                         [col \in rest \cap DOMAIN X.rows[i] |-> X.rows[i][col]]]],
         features |-> [fitted |-> p.fitted, X |-> X]]

NoOutput ==
    [passthrough |-> [columns |-> {}, rows |-> <<>>],
     features |-> [fitted |-> None, X |-> [columns |-> {}, rows |-> <<>>]]]

\* The fitted state is represented by the frame it was learned from.
Fit(p, X) == [p EXCEPT !.fitted = Some(X), !.n_fits = @ + 1]

\* preprocessor.fit_transform(X)
PreprocessorFitTransform(p, X) ==
    [call |-> [method |-> "fit_transform", X |-> X],
     preprocessor |-> Fit(p, X),
     out |-> Output(Fit(p, X), X)]

\* Faulty variant: the validation frame is handed to fit_transform.
PreprocessorTransform_Refits(p, X) == PreprocessorFitTransform(p, X)

\* preprocessor.transform(X)
PreprocessorTransform(p, X) ==
    [call |-> [method |-> "transform", X |-> X],
     preprocessor |-> p,
     out |-> Output(p, X)]

-----------------------------------------------------------------------------
(* The processed directory. *)

FEATURE_NAMES_FILE == "feature_names.json"
processed_file_names == <<"train_data.pt", "val_data.pt">>
FileNames == Range(processed_file_names) \cup {FEATURE_NAMES_FILE}

\* torch_geometric's files_exist(self.processed_paths), on which
\* Dataset._process() decides whether to call process().
FilesExist(fs, names) ==
    /\ Len(names) # 0
    /\ \A i \in DOMAIN names : fs[names[i]] # None

Previous == [origin |-> "previous", content |-> <<"previous">>]

\* converter.convert_dataframe_to_data_list(frame): (data_list, feature_names)
ConvertDataList(frame) == <<"data_list", frame>>
ConvertFeatureNames(frame) == <<"feature_names", frame>>

Written(content) == Some([origin |-> "process", content |-> content])

-----------------------------------------------------------------------------
(* __init__ and process(), one action per step. *)

EmptyFrame == [columns |-> {}, rows |-> <<>>]

\* super().__init__(...): Dataset._process() calls process() unless
\* force_reload is off and every processed file exists.
Construct ==
    /\ pc = "init"
    /\ pc' = IF ~force_reload /\ FilesExist(files, processed_file_names)
             THEN "load" ELSE "prepare"
    /\ UNCHANGED <<cfg, split, force_reload, files, files0, raw, df, train_df,
                   val_df, preprocessor, calls, train_transformed,
                   val_transformed, data, feature_names, transform, error>>

Prepare ==
    /\ pc = "prepare"
    /\ df' = PrepareDataframe(raw, cfg)
    /\ pc' = "split"
    /\ UNCHANGED <<cfg, split, force_reload, files, files0, raw, train_df,
                   val_df, preprocessor, calls, train_transformed,
                   val_transformed, data, feature_names, transform, error>>

Split ==
    /\ pc = "split"
    /\ train_df' = SplitByWorldcupPhase(df, cfg.val_ratio).train_df
    /\ val_df' = SplitByWorldcupPhase(df, cfg.val_ratio).val_df
    /\ pc' = "create_preprocessor"
    /\ UNCHANGED <<cfg, split, force_reload, files, files0, raw, df,
                   preprocessor, calls, train_transformed, val_transformed,
                   data, feature_names, transform, error>>

BuildPreprocessor ==
    /\ pc = "create_preprocessor"
    /\ preprocessor' = CreatePreprocessor(train_df, cfg)
    /\ pc' = "fit_transform"
    /\ UNCHANGED <<cfg, split, force_reload, files, files0, raw, df, train_df,
                   val_df, calls, train_transformed, val_transformed, data,
                   feature_names, transform, error>>

\* Line 448.  The estimators are library code: given a frame of no rows they
\* may raise, which ends process() and the constructor.
FitTransformTrain ==
    /\ pc = "fit_transform"
    /\ LET r == PreprocessorFitTransform(preprocessor, train_df) IN
       /\ calls' = Append(calls, r.call)
       /\ \/ /\ train_df.rows = <<>>
             /\ pc' = "failed"
             /\ error' = "ValueError"
             /\ UNCHANGED <<preprocessor, train_transformed>>
          \/ /\ preprocessor' = r.preprocessor
             /\ train_transformed' = r.out
             /\ pc' = "transform"
             /\ UNCHANGED error
    /\ UNCHANGED <<cfg, split, force_reload, files, files0, raw, df, train_df,
                   val_df, val_transformed, data, feature_names, transform>>

\* Line 449.
TransformVal ==
    /\ pc = "transform"
    /\ LET r == PreprocessorTransform(preprocessor, val_df) IN
       /\ calls' = Append(calls, r.call)
       /\ \/ /\ val_df.rows = <<>>
             /\ pc' = "failed"
             /\ error' = "ValueError"
             /\ UNCHANGED <<preprocessor, val_transformed>>
          \/ /\ preprocessor' = r.preprocessor
             /\ val_transformed' = r.out
             /\ pc' = "save_train"
             /\ UNCHANGED error
    /\ UNCHANGED <<cfg, split, force_reload, files, files0, raw, df, train_df,
                   val_df, train_transformed, data, feature_names, transform>>

\* Lines 451-453 and 459.
SaveTrain ==
    /\ pc = "save_train"
    /\ files' = [files EXCEPT ![processed_file_names[1]] =
                    Written(ConvertDataList(train_transformed))]
    /\ pc' = "save_val"
    /\ UNCHANGED <<cfg, split, force_reload, files0, raw, df, train_df, val_df,
                   preprocessor, calls, train_transformed, val_transformed,
                   data, feature_names, transform, error>>

\* Lines 455-457 and 460.
SaveVal ==
    /\ pc = "save_val"
    /\ files' = [files EXCEPT ![processed_file_names[2]] =
                    Written(ConvertDataList(val_transformed))]
    /\ pc' = "write_feature_names"
    /\ UNCHANGED <<cfg, split, force_reload, files0, raw, df, train_df, val_df,
                   preprocessor, calls, train_transformed, val_transformed,
                   data, feature_names, transform, error>>

\* Lines 462-463: the names are those of the training call.
WriteFeatureNames ==
    /\ pc = "write_feature_names"
    /\ files' = [files EXCEPT ![FEATURE_NAMES_FILE] =
                    Written(ConvertFeatureNames(train_transformed))]
    /\ pc' = "load"
    /\ UNCHANGED <<cfg, split, force_reload, files0, raw, df, train_df, val_df,
                   preprocessor, calls, train_transformed, val_transformed,
                   data, feature_names, transform, error>>

\* Lines 47-48.
Load ==
    /\ pc = "load"
    /\ LET data_path_idx == IF split = "train" THEN 0 ELSE 1 IN
       data' = files[processed_file_names[data_path_idx + 1]]
    /\ pc' = "read_feature_names"
    /\ UNCHANGED <<cfg, split, force_reload, files, files0, raw, df, train_df,
                   val_df, preprocessor, calls, train_transformed,
                   val_transformed, feature_names, transform, error>>

\* Lines 50-62: fp.read_text raises when the manifest is not there.
ReadFeatureNames ==
    /\ pc = "read_feature_names"
    /\ \/ /\ files[FEATURE_NAMES_FILE] = None
          /\ pc' = "failed"
          /\ error' = "FileNotFoundError"
          /\ UNCHANGED <<feature_names, transform>>
       \/ /\ files[FEATURE_NAMES_FILE] # None
          /\ feature_names' = files[FEATURE_NAMES_FILE]
          /\ transform' = IF split = "train" /\ cfg.use_augmentations
                          THEN <<"RandomHorizontalFlip", "RandomVerticalFlip">>
                          ELSE None
          /\ pc' = "done"
          /\ UNCHANGED error
    /\ UNCHANGED <<cfg, split, force_reload, files, files0, raw, df, train_df,
                   val_df, preprocessor, calls, train_transformed,
                   val_transformed, data>>

Next ==
    \/ Construct
    \/ Prepare
    \/ Split
    \/ BuildPreprocessor
    \/ FitTransformTrain
    \/ TransformVal
    \/ SaveTrain
    \/ SaveVal
    \/ WriteFeatureNames
    \/ Load
    \/ ReadFeatureNames

-----------------------------------------------------------------------------
(* Inputs.  Every raw row has its own jerseyNum, so that a row of a derived  *)
(* frame can be traced to the raw row it comes from.                         *)

DefaultCfg ==
    [use_augmentations |-> TRUE,
     include_ball_features |-> TRUE,
     include_goal_features |-> TRUE,
     use_macro_roles |-> TRUE,
     use_regression_imputing |-> FALSE,
     use_pca_on_roster_cols |-> FALSE,
     mask_non_possession_shooting_stats |-> FALSE,
     val_ratio |-> 1]

\* A player row that is the ball carrier of its own possession event.
BaseRow ==
    [gameId |-> 1, gameEventId |-> 1, possessionEventId |-> 1, jerseyNum |-> 1,
     team |-> "home", playerName |-> "p1", playerName_right |-> "p1",
     possessionEventType |-> "PA", x |-> 0, y |-> 0, z |-> 0,
     velocity |-> 0, direction |-> 0, frameTime |-> <<10, 0>>,
     startPeriod2 |-> 2700, homeTeamStartLeft |-> TRUE, age |-> 25,
     playerRole |-> "CF"]

Frame(rows) == [columns |-> RawColumns, rows |-> rows]

\* All orderings of the elements of S.
Perms(S) ==
    {s \in [1..Cardinality(S) -> S] : \A i, j \in DOMAIN s : s[i] = s[j] => i = j}

\* One possession event per match of ids, in that order: the ball carrier of
\* the home team and an opponent.
GameTable(ids) ==
    Frame([i \in 1..(2 * Len(ids)) |->
             LET g == ids[(i + 1) \div 2] IN
             IF i % 2 = 1
             THEN [BaseRow EXCEPT !.gameId = g, !.gameEventId = g, !.jerseyNum = i]
             ELSE [BaseRow EXCEPT !.gameId = g, !.gameEventId = g, !.jerseyNum = i,
                                  !.team = "away", !.playerName = "p2",
                                  !.playerRole = "LB", !.x = 5, !.y = 5]])

NoFiles == [f \in FileNames |-> None]

Start(raw0, c, fs, fr, sp, at) ==
    /\ raw = raw0
    /\ cfg = c
    /\ files = fs
    /\ files0 = fs
    /\ force_reload = fr
    /\ split = sp
    /\ pc = at
    /\ df = EmptyFrame
    /\ train_df = EmptyFrame
    /\ val_df = EmptyFrame
    /\ preprocessor = NoPreprocessor
    /\ calls = <<>>
    /\ train_transformed = NoOutput
    /\ val_transformed = NoOutput
    /\ data = None
    /\ feature_names = None
    /\ transform = None
    /\ error = NULL

\* The constructor is called on any state of the processed directory.
Init ==
    \E S \in SUBSET (1..MaxGameId), v \in 0..RatioDen,
       fs \in [FileNames -> {None, Some(Previous)}],
       fr \in BOOLEAN, sp \in {"train", "val"} :
        Start(GameTable(SortedSeq(S)), [DefaultCfg EXCEPT !.val_ratio = v],
              fs, fr, sp, "init")

Spec == Init /\ [][Next]_vars

\* process() has been entered, with the matches of the raw table in any order.
InitSplit ==
    \E S \in SUBSET (1..MaxGameId), v \in 0..RatioDen :
        \E ids \in Perms(S) :
            Start(GameTable(ids), [DefaultCfg EXCEPT !.val_ratio = v],
                  NoFiles, FALSE, "train", "prepare")

SpecSplit == InitSplit /\ [][Prepare \/ Split]_vars

\* Two possession events of one game event.  Of each: the ball row, the
\* players p1 (home), p2 (away), p3 (home) and a home player without a
\* resolved name.  playerName_right and possessionEventType are those of the
\* possession event.
DeriveJerseys == {10, 11, 12, 13, 14, 20, 21, 22, 23, 24}

DeriveRow(j, carrier, type) ==
    LET g == j \div 10
        k == j % 10
        r == [BaseRow EXCEPT !.jerseyNum = j, !.possessionEventId = g,
                             !.playerName_right = carrier[g],
                             !.possessionEventType = type[g]]
    IN  CASE k = 0 -> [r EXCEPT !.team = NULL, !.playerName = NULL,
                                !.x = IF g = 1 THEN 50 ELSE 10,
                                !.y = IF g = 1 THEN 30 ELSE 20,
                                !.z = g, !.velocity = 3, !.direction = 90 * g]
          [] k = 1 -> [r EXCEPT !.x = 1, !.y = 1, !.velocity = 1]
          [] k = 2 -> [r EXCEPT !.team = "away", !.playerName = "p2", !.x = 2, !.y = 2]
          [] k = 3 -> [r EXCEPT !.playerName = "p3", !.x = 3, !.y = 3]
          [] OTHER -> [r EXCEPT !.playerName = NULL, !.x = 4, !.y = 4]

Reverse(s) == [i \in DOMAIN s |-> s[Len(s) + 1 - i]]

InitDerive ==
    \E K \in {K \in SUBSET DeriveJerseys : Cardinality(K) <= MaxRows},
       reversed \in BOOLEAN, ball \in BOOLEAN,
       c1 \in {NULL, "p1", "p2"}, t1 \in {"PA", "SH"}, c2 \in {NULL, "p2"} :
        LET js == IF reversed THEN Reverse(SortedSeq(K)) ELSE SortedSeq(K)
            rows == [i \in DOMAIN js |-> DeriveRow(js[i], <<c1, c2>>, <<t1, "PA">>)]
        IN  Start(Frame(rows), [DefaultCfg EXCEPT !.include_ball_features = ball],
                  NoFiles, FALSE, "train", "prepare")

SpecDerive == InitDerive /\ [][Prepare]_vars

\* Two ball carriers, each in a possession event of its own, on either team,
\* with either starting side, right before and right after the second half
\* begins.
GoalRow(j, team, homeTeamStartLeft, frameTime) ==
    [BaseRow EXCEPT !.jerseyNum = j, !.gameEventId = j, !.team = team,
                    !.homeTeamStartLeft = homeTeamStartLeft,
                    !.frameTime = frameTime]

GoalFrameTimes == {<<44, 59>>, <<45, 0>>, <<45, 1>>, <<50, 0>>}

InitGoal ==
    \E t1, t2 \in {"home", "away"}, l1, l2 \in BOOLEAN, f1, f2 \in GoalFrameTimes :
        Start(Frame(<<GoalRow(1, t1, l1, f1), GoalRow(2, t2, l2, f2)>>),
              DefaultCfg, NoFiles, FALSE, "train", "prepare")

SpecGoal == InitGoal /\ [][Prepare]_vars

\* Two ball carriers of any age up to MaxAge.
InitAge ==
    \E a1, a2 \in 0..MaxAge :
        Start(Frame(<<[BaseRow EXCEPT !.age = a1],
                      [BaseRow EXCEPT !.age = a2, !.jerseyNum = 2, !.gameEventId = 2]>>),
              DefaultCfg, NoFiles, FALSE, "train", "prepare")

SpecAge == InitAge /\ [][Prepare]_vars

\* Every combination of the configuration flags.
CfgFlags ==
    [use_augmentations : BOOLEAN, include_ball_features : BOOLEAN,
     include_goal_features : BOOLEAN, use_macro_roles : BOOLEAN,
     use_regression_imputing : BOOLEAN, use_pca_on_roster_cols : BOOLEAN,
     mask_non_possession_shooting_stats : BOOLEAN, val_ratio : {1}]

InitCfg ==
    \E c \in CfgFlags, ids \in {<<1, 2>>, <<2, 1, 3>>} :
        Start(GameTable(ids), c, NoFiles, FALSE, "train", "prepare")

SpecPre == InitCfg /\ [][Prepare \/ Split \/ BuildPreprocessor \/ FitTransformTrain]_vars

-----------------------------------------------------------------------------
(* Claims about _split_by_worldcup_phase, under SpecSplit.                   *)

GameIdsOf(d) == {d.rows[i].gameId : i \in DOMAIN d.rows}
JerseysOf(d) == {d.rows[i].jerseyNum : i \in DOMAIN d.rows}
SplitDone == pc = "create_preprocessor"

\* C1: the match identifiers of the train and validation frames are disjoint
\* and together are the identifiers of the input, and every input row is in
\* exactly one of the two frames.
C1_SplitDisjointExhaustive ==
    SplitDone =>
        /\ GameIdsOf(train_df) \cap GameIdsOf(val_df) = {}
        /\ GameIdsOf(train_df) \cup GameIdsOf(val_df) = GameIdsOf(df)
        /\ JerseysOf(train_df) \cap JerseysOf(val_df) = {}
        /\ Range(train_df.rows) \cup Range(val_df.rows) = Range(df.rows)
        /\ Len(train_df.rows) + Len(val_df.rows) = Len(df.rows)

C1_Witness ==
    /\ SplitDone
    /\ Cardinality(GameIdsOf(df)) = 3
    /\ Cardinality(GameIdsOf(train_df)) = 2
    /\ train_df.rows # <<>>
    /\ val_df.rows # <<>>

\* The k smallest elements of a set of integers.
Smallest(S, k) == {g \in S : Cardinality({h \in S : h < g}) < k}

\* Python's round() of the fraction a / b (a >= 0, b > 0): to the nearest
\* integer, a half to the even one.
RoundHalfEven(a, b) ==
    LET q == a \div b
        r == a % b
    IN  IF 2 * r < b THEN q
        ELSE IF 2 * r > b THEN q + 1
        ELSE IF q % 2 = 0 THEN q ELSE q + 1

InOpenUnitInterval(v) == 0 < v /\ v < RatioDen

\* C4 as stated: the training matches are the first
\* round((1 - val_ratio) * count) identifiers in ascending order and the
\* validation matches are the rest.
C4_TrainIsRoundedShare ==
    (SplitDone /\ InOpenUnitInterval(cfg.val_ratio)) =>
        LET ids == GameIdsOf(df)
            k == RoundHalfEven((RatioDen - cfg.val_ratio) * Cardinality(ids), RatioDen)
        IN  /\ GameIdsOf(train_df) = Smallest(ids, k)
            /\ GameIdsOf(val_df) = ids \ Smallest(ids, k)

\* C4 amended: the training matches are the first int((1 - val_ratio) * count)
\* identifiers in ascending order (the product truncated, not rounded), the
\* validation matches are the rest, every training identifier is smaller than
\* every validation identifier, and matches {1, 2} with val_ratio 0.5 give
\* train {1} and validation {2}.
C4_TrainIsTruncatedShare ==
    (SplitDone /\ InOpenUnitInterval(cfg.val_ratio)) =>
        LET ids == GameIdsOf(df)
            k == ((RatioDen - cfg.val_ratio) * Cardinality(ids)) \div RatioDen
        IN  /\ GameIdsOf(train_df) = Smallest(ids, k)
            /\ GameIdsOf(val_df) = ids \ Smallest(ids, k)
            /\ \A t \in GameIdsOf(train_df), w \in GameIdsOf(val_df) : t < w
            /\ (ids = {1, 2} /\ 2 * cfg.val_ratio = RatioDen) =>
                  (GameIdsOf(train_df) = {1} /\ GameIdsOf(val_df) = {2})

\* Three matches listed out of order, val_ratio 0.5: 1.5 truncates to 1.
C4_Witness ==
    /\ SplitDone
    /\ GameIdsOf(df) = {1, 2, 3}
    /\ raw.rows[1].gameId = 3
    /\ 2 * cfg.val_ratio = RatioDen
    /\ GameIdsOf(train_df) = {1}
    /\ GameIdsOf(val_df) = {2, 3}

-----------------------------------------------------------------------------
(* Claims about process() and the constructor, under Spec.                   *)

\* C5 as stated: no fitting happens with an empty training or validation
\* partition (the build has failed before).
C5_NoFitOnEmptyPartition ==
    calls # <<>> => (train_df.rows # <<>> /\ val_df.rows # <<>>)

AfterTransform ==
    pc \in {"save_train", "save_val", "write_feature_names"}
    \/ (pc \in {"load", "read_feature_names", "done"} /\ calls # <<>>)

\* C2: the only fit is the fit_transform on the training frame, it is the
\* first call, the validation frame is only handed to transform, afterwards,
\* and the validation output is computed with the state fitted on the
\* training frame, which no later step changes.
C2_FitOnceOnTrainThenTransformVal ==
    /\ Len(calls) <= 2
    /\ Len(calls) >= 1 => calls[1] = [method |-> "fit_transform", X |-> train_df]
    /\ Len(calls) = 2 => calls[2] = [method |-> "transform", X |-> val_df]
    /\ preprocessor.n_fits <= 1
    /\ preprocessor.fitted \in {None, Some(train_df)}
    /\ AfterTransform =>
          /\ Len(calls) = 2
          /\ preprocessor.n_fits = 1
          /\ preprocessor.fitted = Some(train_df)
          /\ val_transformed.features = [fitted |-> Some(train_df), X |-> val_df]
          /\ train_transformed.features = [fitted |-> Some(train_df), X |-> train_df]

C2_Witness ==
    /\ pc = "done"
    /\ Len(calls) = 2
    /\ train_df.rows # <<>>
    /\ val_df.rows # <<>>
    /\ preprocessor.n_fits = 1

ProcessEntered ==
    \/ pc \in {"prepare", "split", "create_preprocessor", "fit_transform",
               "transform", "save_train", "save_val", "write_feature_names"}
    \/ error = "ValueError"
    \/ \E f \in FileNames : files[f] # None /\ files[f][1].origin = "process"

\* C3 as stated: with force_reload off, a missing artifact (a graph
\* collection or the manifest) makes the constructor run process(), and when
\* all three are there process() is skipped.
C3_MissingArtifactTriggersRebuild ==
    (pc # "init" /\ ~force_reload) =>
        IF \E f \in FileNames : files0[f] = None
        THEN ProcessEntered
        ELSE ~ProcessEntered /\ files = files0

-----------------------------------------------------------------------------
(* Claims about _prepare_dataframe, under SpecDerive, SpecGoal and SpecAge.  *)

PrepareDone == pc = "split"

\* The raw row a derived row comes from.
RawRow(r) == CHOOSE q \in Range(raw.rows) : q.jerseyNum = r.jerseyNum

RawGroup(q) ==
    {s \in Range(raw.rows) : /\ s.gameEventId = q.gameEventId
                             /\ s.possessionEventId = q.possessionEventId}

\* A raw row that passes the filters of lines 147-151.
Survives(q) ==
    q.team # NULL /\ q.possessionEventType # "SH" /\ q.playerName # NULL

\* The surviving ball-carrying rows of q's possession event.
Carriers(q) ==
    {s \in RawGroup(q) : Survives(s) /\ s.playerName = s.playerName_right}

\* C6: every derived row has is_possession_team 1 if its team is the team of
\* the ball-carrying row of its possession event and 0 if not, no row of an
\* event without surviving ball carrier remains, and no ball row remains.
C6_PossessionTeamResolved ==
    PrepareDone =>
        /\ \A r \in Range(df.rows) :
              LET q == RawRow(r) IN
              /\ q.team # NULL
              /\ Carriers(q) # {}
              /\ r.is_possession_team \in {0, 1}
              /\ \A s \in Carriers(q) : r.is_possession_team = 1 <=> q.team = s.team
        /\ \A q \in Range(raw.rows) :
              Carriers(q) = {} => q.jerseyNum \notin JerseysOf(df)

C6_Witness ==
    /\ PrepareDone
    /\ \E r1, r2 \in Range(df.rows) :
          r1.is_possession_team = 1 /\ r2.is_possession_team = 0
    /\ \E q \in Range(raw.rows) :
          Survives(q) /\ Carriers(q) = {} /\ q.jerseyNum \notin JerseysOf(df)

BallRows(q) == {b \in RawGroup(q) : b.team = NULL}

BallScenario ==
    /\ Len(raw.rows) = 3
    /\ JerseysOf(raw) = {10, 11, 12}
    /\ raw.rows[1].playerName_right = "p1"
    /\ raw.rows[1].possessionEventType = "PA"

\* C8: with include_ball_features, every derived row of a possession event
\* that has one ball row carries that row's x, y and velocity components as
\* x_ball, y_ball, vx_ball, vy_ball; with the ball at (50, 30), the carrier
\* p1 of team home and one opponent, both rows get (50, 30), the home row
\* is_possession_team 1 and the other 0.
C8_BallFeaturesBroadcast ==
    (PrepareDone /\ cfg.include_ball_features) =>
        /\ \A r \in Range(df.rows) :
              LET q == RawRow(r) IN
              Cardinality(BallRows(q)) = 1 =>
                  \A b \in BallRows(q) :
                      /\ r.x_ball = Some(b.x)
                      /\ r.y_ball = Some(b.y)
                      /\ r.vx_ball = Some(Mul(b.velocity, Cos(b.direction)))
                      /\ r.vy_ball = Some(Mul(b.velocity, Sin(b.direction)))
        /\ BallScenario =>
              /\ JerseysOf(df) = {11, 12}
              /\ \A r \in Range(df.rows) :
                    /\ r.x_ball = Some(50)
                    /\ r.y_ball = Some(30)
                    /\ r.is_possession_team = IF r.jerseyNum = 11 THEN 1 ELSE 0

C8_Witness ==
    /\ PrepareDone
    /\ cfg.include_ball_features
    /\ BallScenario
    /\ Len(df.rows) = 2
    /\ df.rows[1].x_ball = Some(50)
    /\ df.rows[2].y_ball = Some(30)

IsHome(q) == q.team = "home"
IsSecondHalf(q) == q.frameTime[1] * 60 + q.frameTime[2] > q.startPeriod2
NumTrue(t) == Cardinality({k \in DOMAIN t : t[k]})

\* C7: two rows that differ in both team side and half (same starting side)
\* get the same x_goal, two rows that differ in exactly one of team side,
\* starting side and half get the two different goals, at most one of the
\* four attacking-right combinations holds of a row, and y_goal is Y_GOAL.
C7_GoalAssignmentSymmetric ==
    PrepareDone =>
        /\ \A r \in Range(df.rows) :
              LET q == RawRow(r)
                  t == GoalRightTerms(IsHome(q), q.homeTeamStartLeft, IsSecondHalf(q))
              IN  /\ r.y_goal = Y_GOAL
                  /\ r.x_goal \in {X_GOAL_RIGHT, X_GOAL_LEFT}
                  /\ NumTrue(t) <= 1
                  /\ r.x_goal = X_GOAL_RIGHT <=> NumTrue(t) = 1
        /\ \A r1, r2 \in Range(df.rows) :
              LET q1 == RawRow(r1)
                  q2 == RawRow(r2)
                  differ == <<IsHome(q1) # IsHome(q2),
                              q1.homeTeamStartLeft # q2.homeTeamStartLeft,
                              IsSecondHalf(q1) # IsSecondHalf(q2)>>
              IN  /\ (differ[1] /\ ~differ[2] /\ differ[3]) => r1.x_goal = r2.x_goal
                  /\ NumTrue(differ) = 1 => r1.x_goal # r2.x_goal

C7_Witness ==
    /\ PrepareDone
    /\ Len(df.rows) = 2
    /\ IsHome(raw.rows[1]) /\ ~IsHome(raw.rows[2])
    /\ ~IsSecondHalf(raw.rows[1]) /\ IsSecondHalf(raw.rows[2])
    /\ raw.rows[1].homeTeamStartLeft /\ raw.rows[2].homeTeamStartLeft
    /\ df.rows[1].x_goal = X_GOAL_RIGHT
    /\ df.rows[2].x_goal = X_GOAL_RIGHT

BandRank(band) ==
    CASE band = "Under 20" -> 1
      [] band = "20-28" -> 2
      [] band = "29-35" -> 3
      [] band = "35+" -> 4

\* C9: age < 20 gives "Under 20", 20 <= age < 29 gives "20-28",
\* 29 <= age < 35 gives "29-35", age >= 35 gives "35+"; every age gets one
\* band and the band does not decrease with age.
C9_AgeBands ==
    PrepareDone =>
        /\ Len(df.rows) = Len(raw.rows)
        /\ \A r \in Range(df.rows) :
              LET age == RawRow(r).age IN
              /\ r.age \in {"Under 20", "20-28", "29-35", "35+"}
              /\ age < 20 => r.age = "Under 20"
              /\ (20 <= age /\ age < 29) => r.age = "20-28"
              /\ (29 <= age /\ age < 35) => r.age = "29-35"
              /\ age >= 35 => r.age = "35+"
        /\ \A r1, r2 \in Range(df.rows) :
              RawRow(r1).age <= RawRow(r2).age => BandRank(r1.age) <= BandRank(r2.age)

C9_Witness ==
    /\ PrepareDone
    /\ raw.rows[1].age = 29 /\ df.rows[1].age = "29-35"
    /\ raw.rows[2].age = 40 /\ df.rows[2].age = "35+"

-----------------------------------------------------------------------------
(* Claims about _create_preprocessor, under SpecPre.                         *)

Branch(name) ==
    {preprocessor.transformers[k].columns :
        k \in {k \in DOMAIN preprocessor.transformers :
                  preprocessor.transformers[k].name = name}}

Disjoint(A, B) == \A a \in A, b \in B : a \cap b = {}

\* C10 as stated: the column lists of the branches are pairwise disjoint.
C10_BranchesPairwiseDisjoint ==
    pc = "fit_transform" =>
        \A i, j \in DOMAIN preprocessor.transformers :
            i # j => preprocessor.transformers[i].columns
                     \cap preprocessor.transformers[j].columns = {}

\* C10 amended: the numeric, categorical and player-location lists are
\* pairwise disjoint and the goal-location and ball-location lists are
\* disjoint from the numeric and categorical ones; the goal-location list
\* shares x, y, x_goal, y_goal and the ball-location list x, y, cos, sin, vx,
\* vy with the player-location list; a column of no list passes through
\* unmodified.
C10_CoreBranchesDisjoint ==
    /\ pc = "fit_transform" =>
          /\ Disjoint(Branch("num"), Branch("cat"))
          /\ Disjoint(Branch("num"), Branch("player_loc"))
          /\ Disjoint(Branch("cat"), Branch("player_loc"))
          /\ Disjoint(Branch("goal_loc") \cup Branch("ball_pipe"),
                      Branch("num") \cup Branch("cat"))
          /\ Cardinality(Branch("num")) = 1
          /\ Cardinality(Branch("cat")) = 1
          /\ Cardinality(Branch("player_loc")) = 1
          /\ Cardinality(Branch("goal_loc")) = IF cfg.include_goal_features THEN 1 ELSE 0
          /\ Cardinality(Branch("ball_pipe")) = IF cfg.include_ball_features THEN 1 ELSE 0
          /\ \A g \in Branch("goal_loc"), p \in Branch("player_loc") :
                g \cap p = {"x", "y", "x_goal", "y_goal"}
          /\ \A b \in Branch("ball_pipe"), p \in Branch("player_loc") :
                b \cap p = {"x", "y", "cos", "sin", "vx", "vy"}
    /\ pc = "transform" =>
          LET rest == {col \in train_df.columns :
                          \A k \in DOMAIN preprocessor.transformers :
                              col \notin preprocessor.transformers[k].columns}
              out == train_transformed.passthrough
          IN  /\ out.columns = rest
              /\ Len(out.rows) = Len(train_df.rows)
              /\ \A i \in DOMAIN train_df.rows :
                    \A col \in rest \cap DOMAIN train_df.rows[i] :
                        out.rows[i][col] = train_df.rows[i][col]

C10_Witness ==
    /\ pc = "transform"
    /\ cfg.include_goal_features
    /\ cfg.include_ball_features
    /\ Len(preprocessor.transformers) = 5
    /\ train_transformed.passthrough.rows # <<>>
    /\ "gameId" \in train_transformed.passthrough.columns
    /\ train_transformed.passthrough.rows[1].gameId = 1

====
